---- MODULE Spec2Model ----
(***************************************************************************)
(* Model of src/main.py, the monthly BigQuery billing export: the module   *)
(* globals computed when the process loads the module, the idempotency     *)
(* gate can_insert_data, the three report generators, store_df_in_bq and   *)
(* the loop of main over the three reports.                                 *)
(*                                                                         *)
(* Dates are records [year, month, day]; date arithmetic goes through the  *)
(* proleptic Gregorian ordinal as datetime.date does.  Strings produced by *)
(* strftime and FORMAT_DATE are sequences of decimal digits.  A timestamp  *)
(* is ordinal * TicksPerDay + tick, tick 0 being 00:00:00 of the day.      *)
(***************************************************************************)
EXTENDS Integers, Sequences, FiniteSets, TLC

\* ------------------------------------------------------------------ bounds
\* Invocations of main in one behaviour.
MaxInvocations == 3
\* Days the wall clock may advance past StartDate.
MaxElapsed == 2
\* Calendar years whose every day is a "today" of SpecPeriod.
NumYears == 2

CenturyYears == {2000, 2100}
StartDate == [year |-> 2024, month |-> 2, day |-> 29]
\* Instants distinguished inside one day: tick 0 is midnight, the rest later.
TicksPerDay == 2
\* The invocations up to this one may start while another one is running.
MaxOverlapping == 2
\* Byte counts are held in units of 2^24 bytes, so that a tebibyte times the
\* cost factor stays below 2^31: 2^30 bytes are 64 units.
gb_divisor == 64
tb_divisor == gb_divisor * 1024
cost_per_tb_in_dollar == 5

\* ---------------------------------------------------------------- calendar
\* datetime.date: the arithmetic behind `date - timedelta(days=n)`.
DAYS_IN_MONTH == <<31, 28, 31, 30, 31, 30, 31, 31, 30, 31, 30, 31>>

DAYS_BEFORE_MONTH == <<0, 31, 59, 90, 120, 151, 181, 212, 243, 273, 304, 334>>

is_leap(year) == year % 4 = 0 /\ (year % 100 # 0 \/ year % 400 = 0)

days_before_year(year) ==
    LET y == year - 1 IN y * 365 + (y \div 4) - (y \div 100) + (y \div 400)

days_in_month(year, month) ==
    IF month = 2 /\ is_leap(year) THEN 29 ELSE DAYS_IN_MONTH[month]

days_before_month(year, month) ==
    DAYS_BEFORE_MONTH[month] + (IF month > 2 /\ is_leap(year) THEN 1 ELSE 0)

ymd2ord(year, month, day) ==
    days_before_year(year) + days_before_month(year, month) + day

toordinal(d) == ymd2ord(d.year, d.month, d.day)

DI400Y == days_before_year(401)
DI100Y == days_before_year(101)
DI4Y == days_before_year(5)

ord2ymd(ordinal) ==
    LET n0 == ordinal - 1
        n400 == n0 \div DI400Y
        n1r == n0 % DI400Y
        n100 == n1r \div DI100Y
        n2r == n1r % DI100Y
        n4 == n2r \div DI4Y
        n3r == n2r % DI4Y
        n1 == n3r \div 365
        n == n3r % 365
        year == n400 * 400 + 1 + n100 * 100 + n4 * 4 + n1
    IN  IF n1 = 4 \/ n100 = 4
        THEN [year |-> year - 1, month |-> 12, day |-> 31]
        ELSE LET leapyear == n1 = 3 /\ (n4 # 24 \/ n100 = 3)
                 leapadd(m) == IF m > 2 /\ leapyear THEN 1 ELSE 0
                 month0 == (n + 50) \div 32
                 preceding0 == DAYS_BEFORE_MONTH[month0] + leapadd(month0)
                 month == IF preceding0 > n THEN month0 - 1 ELSE month0
                 preceding ==
                     IF preceding0 > n
                     THEN preceding0 - (DAYS_IN_MONTH[month]
                                        + (IF month = 2 /\ leapyear THEN 1 ELSE 0))
                     ELSE preceding0
             IN  [year |-> year, month |-> month, day |-> n - preceding + 1]

fromordinal(n) == ord2ymd(n)

\* date - timedelta(days=days)
DateMinusDays(d, days) == fromordinal(toordinal(d) - days)

\* The decimal digits of n, zero padded to width characters.
RECURSIVE Digits(_, _)
Digits(n, width) ==
    IF width = 0 THEN << >> ELSE Append(Digits(n \div 10, width - 1), n % 10)

\* d.strftime('%Y%m') and FORMAT_DATE("%Y%m", d)
strftime_Ym(d) == Digits(d.year, 4) \o Digits(d.month, 2)

\* d.strftime('%Y-%m-%d')
strftime_Y_m_d(d) ==
    Digits(d.year, 4) \o <<"-">> \o Digits(d.month, 2) \o <<"-">> \o Digits(d.day, 2)

RECURSIVE Number(_)
Number(digits) ==
    IF digits = << >> THEN 0
    ELSE 10 * Number(SubSeq(digits, 1, Len(digits) - 1)) + digits[Len(digits)]

\* The TIMESTAMP the query engine reads from a 'YYYY-MM-DD' literal:
\* midnight of that day.
TimestampOfLiteral(s) ==
    ymd2ord(Number(SubSeq(s, 1, 4)), Number(SubSeq(s, 6, 7)), Number(SubSeq(s, 9, 10)))
        * TicksPerDay

\* date(start_time)
DateOfTimestamp(ts) == fromordinal(ts \div TicksPerDay)

Timestamp(year, month, day, tick) == ymd2ord(year, month, day) * TicksPerDay + tick

\* ------------------------------------------------------------- environment
VARIABLES
    today,                          \* date.today() of the wall clock
    loaded,                         \* the process has imported the module
    date_tc,
    date_last_day_previous_month,
    date_first_day_previous_month,
    str_last_month,
    JOBS_BY_ORGANIZATION,           \* `region-us`.INFORMATION_SCHEMA.JOBS_BY_ORGANIZATION
    warehouse,                      \* tracked dataset -> metadata of its main table
    bucket,                         \* the blobs of data_bucket_name
    tables,                         \* billing dataset: table_name -> [exists, rows]
    pc,                             \* invocation -> position inside main
    report,                         \* invocation -> index of the loop over reports
    df,                             \* invocation -> the DataFrame in hand
    started,                        \* invocations of main begun so far
    ranOn,                          \* invocation -> date on which it began
    before,                         \* invocation -> tables when it began
    log,                            \* invocation -> what it has done, in order
    last                            \* outcome of the latest finished invocation

vars == <<today, loaded, date_tc, date_last_day_previous_month,
          date_first_day_previous_month, str_last_month, JOBS_BY_ORGANIZATION,
          warehouse, bucket, tables, pc, report, df, started, ranOn, before,
          log, last>>

globals == <<loaded, date_tc, date_last_day_previous_month,
             date_first_day_previous_month, str_last_month>>

sources == <<JOBS_BY_ORGANIZATION, warehouse, bucket>>

Invocations == 1..MaxInvocations

\* The keys of the dict `reports`, in insertion order.
reports == <<"storage_usage", "bq_jobs_costs_detail", "bq_jobs_costs_per_project">>

TableNames == {reports[k] : k \in 1..Len(reports)}

IndexOf(table_name) == CHOOSE k \in 1..Len(reports) : reports[k] = table_name

\* BIQUERY_PROJECTS split at the commas; names are sequences of characters.
bigquery_projects == << <<"a">>, <<"a", "b">> >>

NoDate == [year |-> 0, month |-> 0, day |-> 0]
NoDF == [has |-> FALSE, rows |-> << >>]
NoTables == [t \in TableNames |-> [exists |-> FALSE, rows |-> << >>]]
NoLast == [outcome |-> "none", month |-> << >>]

\* The jobs the organisation has run.  j2 starts on the last day of January
\* after midnight, j3 at midnight of the first day of February, j6 at midnight
\* of the last day of January; j5 is not a query and j7 did not finish; j8 is
\* in the group of j6.
Job(id, project, user, type, st, start, hit, billed, processed) ==
    [job_id |-> id, project_id |-> project, user_email |-> user, job_type |-> type,
     state |-> st, start_time |-> start, cache_hit |-> hit,
     total_bytes_billed |-> billed, total_bytes_processed |-> processed]

AllJobs ==
    { Job(1, "p1", "u1", "QUERY", "DONE", Timestamp(2024, 1, 15, 1), "false", 64, 65536),
      Job(2, "p1", "u1", "QUERY", "DONE", Timestamp(2024, 1, 31, 1), "false", 96, 65536),
      Job(3, "p2", "u1", "QUERY", "DONE", Timestamp(2024, 2, 1, 0), "true", 32, 4096),
      Job(4, "p1", "u2", "QUERY", "DONE", Timestamp(2024, 2, 10, 1), "null", 7, 7),
      Job(5, "p1", "u1", "LOAD", "DONE", Timestamp(2024, 2, 12, 1), "false", 64, 64),
      Job(6, "p2", "u2", "QUERY", "DONE", Timestamp(2024, 1, 31, 0), "false", 1, 1),
      Job(7, "p2", "u2", "QUERY", "RUNNING", Timestamp(2024, 1, 20, 1), "false", 1, 1),
      Job(8, "p2", "u2", "QUERY", "DONE", Timestamp(2024, 1, 10, 0), "false", 1, 2) }

Table(bytes, rows) == [exists |-> TRUE, num_bytes |-> bytes, num_rows |-> rows]
MissingTable == [exists |-> FALSE, num_bytes |-> 0, num_rows |-> 0]

Blob(name, size) == [name |-> name, size |-> size]

AllBlobs ==
    { Blob(<<"a", "/", "x">>, 10), Blob(<<"a", "/", "y">>, 20),
      Blob(<<"a", "b", "/", "x">>, 30), Blob(<<"c", "/", "x">>, 5) }

\* The worlds a behaviour may run in: what the organisation has run, which
\* warehouse tables exist, what the bucket holds.
Scenarios ==
    << [jobs |-> AllJobs,
        warehouse |-> [p \in {<<"a">>, <<"a", "b">>} |-> Table(1000, 3)],
        bucket |-> AllBlobs],
       [jobs |-> {},
        warehouse |-> [p \in {<<"a">>, <<"a", "b">>} |-> Table(1000, 3)],
        bucket |-> {}],
       [jobs |-> AllJobs,
        warehouse |-> [p \in {<<"a">>, <<"a", "b">>} |->
                          IF p = <<"a">> THEN Table(500, 1) ELSE MissingTable],
        bucket |-> AllBlobs] >>

\* --------------------------------------------------------------- generators
\* ROUND(a / b, 0) for a >= 0, b > 0: halves round away from zero.
RoundDiv(a, b) == (2 * a + b) \div (2 * b)

\* Lexicographic rank of the identifiers that occur in the jobs.
Names == <<"p1", "p2", "u1", "u2">>
StrRank(str) == CHOOSE k \in 1..Len(Names) : Names[k] = str

\* Variant: the window has lost its lower end.
QueryWindowNoLowerEnd(jobs, first_day, last_day) ==
    { j \in jobs :
        /\ j.job_type = "QUERY"
        /\ j.state = "DONE"
        /\ j.start_time <= TimestampOfLiteral(strftime_Y_m_d(last_day)) }

\* WHERE job_type = 'QUERY' AND state = 'DONE'
\*   AND start_time BETWEEN '<first day>' AND '<last day>'
QueryWindow(jobs, first_day, last_day) ==
    { j \in jobs :
        /\ j.job_type = "QUERY"
        /\ j.state = "DONE"
        /\ j.start_time >= TimestampOfLiteral(strftime_Y_m_d(first_day))
        /\ j.start_time <= TimestampOfLiteral(strftime_Y_m_d(last_day)) }

\* FORMAT_DATE("%Y%m", date(start_time)) as month
MonthOfJob(j) == strftime_Ym(DateOfTimestamp(j.start_time))

\* IF(cache_hit != true, ROUND(total_bytes_processed * cost_factor, 4), 0),
\* in ten-thousandths of a dollar.  cache_hit NULL makes the condition NULL,
\* which IF takes as false.  10000 / tb_divisor is reduced by 16.
cost_in_dollar(j) ==
    IF j.cache_hit = "false"
    THEN RoundDiv(j.total_bytes_processed * cost_per_tb_in_dollar * 625,
                  tb_divisor \div 16)
    ELSE 0

\* ROUND(bytes / gb_divisor, 2), in hundredths of a gigabyte.
bytes_in_gb(bytes) == RoundDiv(bytes * 100, gb_divisor)

JobBefore(a, b) ==
    LET ka == <<StrRank(a.project_id), a.start_time, StrRank(a.user_email), a.job_id>>
        kb == <<StrRank(b.project_id), b.start_time, StrRank(b.user_email), b.job_id>>
    IN  \E k \in 1..4 : ka[k] < kb[k] /\ \A h \in 1..(k - 1) : ka[h] = kb[h]

\* ORDER BY project_id, start_time, user_email (ties by job_id)
RECURSIVE OrderJobs(_)
OrderJobs(jobs) ==
    IF jobs = {} THEN << >>
    ELSE LET first == CHOOSE j \in jobs : \A o \in jobs \ {j} : JobBefore(j, o)
         IN  <<first>> \o OrderJobs(jobs \ {first})

DetailRow(j) ==
    [project_id |-> j.project_id, month |-> MonthOfJob(j), start_time |-> j.start_time,
     user_email |-> j.user_email, job_id |-> j.job_id,
     bytes_processed_in_gb |-> bytes_in_gb(j.total_bytes_billed),
     cost_in_dollar |-> cost_in_dollar(j)]

\* The detail query, for the window the f-string puts into it.
DetailReport(first_day, last_day) ==
    LET jobs == OrderJobs(QueryWindow(JOBS_BY_ORGANIZATION, first_day, last_day))
    IN  [ok |-> TRUE, rows |-> [k \in 1..Len(jobs) |-> DetailRow(jobs[k])]]

generate_bq_jobs_costs_detail ==
    DetailReport(date_first_day_previous_month, date_last_day_previous_month)

RECURSIVE SumBilled(_)
SumBilled(jobs) ==
    IF jobs = {} THEN 0
    ELSE LET j == CHOOSE x \in jobs : TRUE
         IN  j.total_bytes_billed + SumBilled(jobs \ {j})

RECURSIVE SumCost(_)
SumCost(jobs) ==
    IF jobs = {} THEN 0
    ELSE LET j == CHOOSE x \in jobs : TRUE
         IN  cost_in_dollar(j) + SumCost(jobs \ {j})

GroupKey(j) == <<j.user_email, j.project_id, MonthOfJob(j)>>

RECURSIVE SumProcessed(_)
SumProcessed(jobs) ==
    IF jobs = {} THEN 0
    ELSE LET j == CHOOSE x \in jobs : TRUE
         IN  (IF j.cache_hit = "false" THEN j.total_bytes_processed ELSE 0)
                 + SumProcessed(jobs \ {j})

RECURSIVE SumBilledRounded(_)
SumBilledRounded(jobs) ==
    IF jobs = {} THEN 0
    ELSE LET j == CHOOSE x \in jobs : TRUE
         IN  bytes_in_gb(j.total_bytes_billed) + SumBilledRounded(jobs \ {j})

\* Variant: the cost is rounded once after the sum, the gigabytes per query.
GroupRowOtherRounding(jobs) ==
    LET j == CHOOSE x \in jobs : TRUE
    IN  [project_id |-> j.project_id, user_email |-> j.user_email,
         month |-> MonthOfJob(j), num_queries |-> Cardinality(jobs),
         bytes_processed_in_gb |-> SumBilledRounded(jobs),
         cost_in_dollar |-> RoundDiv(SumProcessed(jobs) * cost_per_tb_in_dollar * 625,
                                     tb_divisor \div 16)]

\* count(*), ROUND(SUM(total_bytes_billed)/gb_divisor, 2) and
\* ROUND(SUM(cost_in_dollar), 4) of one group; a sum of costs already rounded
\* to 4 decimals has 4 decimals.
GroupRow(jobs) ==
    LET j == CHOOSE x \in jobs : TRUE
    IN  [project_id |-> j.project_id, user_email |-> j.user_email,
         month |-> MonthOfJob(j), num_queries |-> Cardinality(jobs),
         bytes_processed_in_gb |-> bytes_in_gb(SumBilled(jobs)),
         cost_in_dollar |-> SumCost(jobs)]

\* GROUP BY user_email, project_id, month.  The rows come in the order of the
\* first job of each group.
PerProjectReport(first_day, last_day) ==
    LET window == QueryWindow(JOBS_BY_ORGANIZATION, first_day, last_day)
        jobs == OrderJobs(window)
        heads == SelectSeq([k \in 1..Len(jobs) |-> k],
                           LAMBDA k : \A h \in 1..(k - 1) :
                                          GroupKey(jobs[h]) # GroupKey(jobs[k]))
    IN  [ok |-> TRUE,
         rows |-> [g \in 1..Len(heads) |->
                      GroupRow({j \in window : GroupKey(j) = GroupKey(jobs[heads[g]])})]]

generate_bq_jobs_costs_per_project ==
    PerProjectReport(date_first_day_previous_month, date_last_day_previous_month)

IsPrefix(prefix, name) ==
    Len(prefix) <= Len(name) /\ SubSeq(name, 1, Len(prefix)) = prefix

RECURSIVE SumSizes(_)
SumSizes(blobs) ==
    IF blobs = {} THEN 0
    ELSE LET b == CHOOSE x \in blobs : TRUE IN b.size + SumSizes(blobs \ {b})

\* Variant: only the blobs under the folder named as the dataset.
list_blobs_of_folder(prefix) == { b \in bucket : IsPrefix(prefix \o <<"/">>, b.name) }

\* CS.list_blobs(data_bucket_name, prefix=project)
list_blobs(prefix) == { b \in bucket : IsPrefix(prefix, b.name) }

StorageRow(project, month) ==
    [project |-> project, month |-> month,
     cloud_storage_bytes |-> SumSizes(list_blobs(project)),
     bigquery_storage_bytes |-> warehouse[project].num_bytes]

\* Variant: a tracked dataset without its main table is skipped.
StorageReportSkipping(month) ==
    LET present == SelectSeq(bigquery_projects, LAMBDA p : warehouse[p].exists)
    IN  [ok |-> TRUE,
         rows |-> [k \in 1..Len(present) |-> StorageRow(present[k], month)]]

\* BQ.get_table raises NotFound at the first tracked dataset without its
\* main table; the rows gathered so far are dropped with the frame.
StorageReport(month) ==
    IF \A k \in 1..Len(bigquery_projects) : warehouse[bigquery_projects[k]].exists
    THEN [ok |-> TRUE,
          rows |-> [k \in 1..Len(bigquery_projects) |->
                       StorageRow(bigquery_projects[k], month)]]
    ELSE [ok |-> FALSE, rows |-> << >>]

generate_storage_usage == StorageReport(str_last_month)

\* func_ref()
Generator(table_name) ==
    CASE table_name = "storage_usage" -> generate_storage_usage
      [] table_name = "bq_jobs_costs_detail" -> generate_bq_jobs_costs_detail
      [] table_name = "bq_jobs_costs_per_project" -> generate_bq_jobs_costs_per_project

\* --------------------------------------------------------------------- gate
\* Variant: the query compares with != instead of =.
MonthQueryOtherMonths(rows, month) == SelectSeq(rows, LAMBDA r : r.data.month # month)

\* SELECT 1 FROM `table_id` WHERE month = 'str_last_month'
MonthQuery(rows, month) == SelectSeq(rows, LAMBDA r : r.data.month = month)

\* Variant: the comparison lets every count through.
TotalRowsAllowAny(total_rows) == total_rows >= 0

\* Variant: the gate allows when the month is already there.
TotalRowsAllowInverted(total_rows) == total_rows # 0

\* if result.total_rows == 0: return True / else: return False
TotalRowsAllow(total_rows) == total_rows = 0

\* Variant: the handler denies.
NotFoundDeny == FALSE

\* except NotFound: return True
NotFoundAllow == TRUE

\* Variant: the existence check creates the table it looks for.
GetTableCreates(table_name) == [tables EXCEPT ![table_name].exists = TRUE]

\* BQ.get_table(table_id) reads the table's metadata.
GetTableEffect(table_name) == tables

\* ------------------------------------------------------------------- store
Tagged(rows, i) == [k \in 1..Len(rows) |-> [data |-> rows[k], by |-> i]]

\* Variant: if_exists="replace", the frame takes the place of the table.
to_gbq_replace(table, rows, i) == [exists |-> TRUE, rows |-> Tagged(rows, i)]

\* df.to_gbq(..., if_exists="append"): creates the table when it is missing
\* and appends every row of the frame in one load job.
to_gbq(table, rows, i) == [exists |-> TRUE, rows |-> table.rows \o Tagged(rows, i)]

\* Variant: rows are sent one by one and the first is in when the rest fail.
FailedLoadPartial(rows) == SubSeq(rows, 1, 1)

\* What a load job that raises has written.
FailedLoadRows(rows) == << >>

\* ------------------------------------------------------------ the processes
Event(step, table_name, out) ==
    [step |-> step, table |-> table_name, out |-> out, month |-> str_last_month]

Active(i) == pc[i] \notin {"idle", "ended"}

Current(i) == reports[report[i]]

\* date_tc - timedelta(days=date_tc.day)
last_day_previous_month(d) == DateMinusDays(d, d.day)

\* Variant: the whole day of month is subtracted.
first_day_off_by_one(last_day) == DateMinusDays(last_day, last_day.day)

\* date_last_day_previous_month - timedelta(days=date_last_day_previous_month.day-1)
first_day_previous_month(last_day) == DateMinusDays(last_day, last_day.day - 1)

\* The interpreter imports the module: lines 28-33 run once.
LoadModule ==
    /\ \A i \in Invocations : ~Active(i)
    /\ loaded' = TRUE
    /\ date_tc' = today
    /\ date_last_day_previous_month' = last_day_previous_month(today)
    /\ date_first_day_previous_month' =
           first_day_previous_month(date_last_day_previous_month')
    /\ str_last_month' = strftime_Ym(date_first_day_previous_month')
    /\ UNCHANGED <<today, sources, tables, pc, report, df, started, ranOn, before,
                   log, last>>

\* Midnight passes.
AdvanceClock ==
    /\ toordinal(today) - toordinal(StartDate) < MaxElapsed
    /\ today' = fromordinal(toordinal(today) + 1)
    /\ UNCHANGED <<globals, sources, tables, pc, report, df, started, ranOn, before,
                   log, last>>

\* The trigger calls main(event, context); invocations do not overlap.
Start(i) ==
    /\ loaded
    /\ i = started + 1
    /\ \A j \in Invocations : ~Active(j)
    /\ pc' = [pc EXCEPT ![i] = "get_table"]
    /\ report' = [report EXCEPT ![i] = 1]
    /\ started' = i
    /\ ranOn' = [ranOn EXCEPT ![i] = today]
    /\ before' = [before EXCEPT ![i] = tables]
    /\ UNCHANGED <<today, globals, sources, tables, df, log, last>>

\* The loop of main moves to the next report, or main returns.
Advance(i) ==
    IF report[i] < Len(reports)
    THEN /\ pc' = [pc EXCEPT ![i] = "get_table"]
         /\ report' = [report EXCEPT ![i] = @ + 1]
    ELSE /\ pc' = [pc EXCEPT ![i] = "done"]
         /\ UNCHANGED report

\* Variant: a denial leaves the loop.
ReturnedOrBreak(i, can) ==
    /\ log' = [log EXCEPT ![i] =
                  Append(@, Event("gate", Current(i), IF can THEN "true" ELSE "false"))]
    /\ pc' = [pc EXCEPT ![i] = IF can THEN "generate" ELSE "done"]
    /\ UNCHANGED report

\* Variant: main generates whatever the gate said.
ReturnedAndGenerate(i, can) ==
    /\ log' = [log EXCEPT ![i] =
                  Append(@, Event("gate", Current(i), IF can THEN "true" ELSE "false"))]
    /\ pc' = [pc EXCEPT ![i] = "generate"]
    /\ UNCHANGED report

\* can_insert_data returned `can` to main.
Returned(i, can) ==
    /\ log' = [log EXCEPT ![i] =
                  Append(@, Event("gate", Current(i), IF can THEN "true" ELSE "false"))]
    /\ IF can
       THEN pc' = [pc EXCEPT ![i] = "generate"] /\ UNCHANGED report
       ELSE Advance(i)

\* Variant: each report runs in its own try/except and the loop goes on.
RaiseAndGoOn(i, step) ==
    /\ log' = [log EXCEPT ![i] = Append(@, Event(step, Current(i), "raise"))]
    /\ Advance(i)

\* An exception leaves main.
Raise(i, step) ==
    /\ pc' = [pc EXCEPT ![i] = "error"]
    /\ log' = [log EXCEPT ![i] = Append(@, Event(step, Current(i), "raise"))]
    /\ UNCHANGED report

\* can_insert_data, BQ.get_table: the table is there.
GetTableFound(i) ==
    /\ pc[i] = "get_table"
    /\ tables[Current(i)].exists
    /\ pc' = [pc EXCEPT ![i] = "query"]
    /\ tables' = GetTableEffect(Current(i))
    /\ UNCHANGED <<today, globals, sources, report, df, started, ranOn, before, log,
                   last>>

\* can_insert_data, BQ.get_table raises NotFound, which the gate catches.
GetTableNotFound(i) ==
    /\ pc[i] = "get_table"
    /\ ~tables[Current(i)].exists
    /\ Returned(i, NotFoundAllow)
    /\ tables' = GetTableEffect(Current(i))
    /\ UNCHANGED <<today, globals, sources, df, started, ranOn, before, last>>

\* can_insert_data, BQ.get_table raises something else.
GetTableError(i) ==
    /\ pc[i] = "get_table"
    /\ Raise(i, "get_table")
    /\ UNCHANGED <<today, globals, sources, tables, df, started, ranOn, before, last>>

\* can_insert_data, the month query returns its rows.
Query(i) ==
    /\ pc[i] = "query"
    /\ tables[Current(i)].exists
    /\ Returned(i, TotalRowsAllow(Len(MonthQuery(tables[Current(i)].rows,
                                                 str_last_month))))
    /\ UNCHANGED <<today, globals, sources, tables, df, started, ranOn, before, last>>

\* can_insert_data, the month query raises NotFound because the table is no
\* longer there; the query is inside the same try as BQ.get_table.
QueryNotFound(i) ==
    /\ pc[i] = "query"
    /\ ~tables[Current(i)].exists
    /\ Returned(i, NotFoundAllow)
    /\ UNCHANGED <<today, globals, sources, tables, df, started, ranOn, before, last>>

\* can_insert_data, the month query raises.
QueryError(i) ==
    /\ pc[i] = "query"
    /\ Raise(i, "query")
    /\ UNCHANGED <<today, globals, sources, tables, df, started, ranOn, before, last>>

\* df = func_ref()
Generate(i) ==
    /\ pc[i] = "generate"
    /\ Generator(Current(i)).ok
    /\ df' = [df EXCEPT ![i] = [has |-> TRUE, rows |-> Generator(Current(i)).rows]]
    /\ pc' = [pc EXCEPT ![i] = "store"]
    /\ log' = [log EXCEPT ![i] = Append(@, Event("generate", Current(i), "ok"))]
    /\ UNCHANGED <<today, globals, sources, tables, report, started, ranOn, before,
                   last>>

\* func_ref() raises: a tracked dataset without its table, or the query
\* engine or the bucket failing.
GenerateError(i) ==
    /\ pc[i] = "generate"
    /\ Raise(i, "generate")
    /\ UNCHANGED <<today, globals, sources, tables, df, started, ranOn, before, last>>

\* store_df_in_bq(df, table_name)
Store(i) ==
    /\ pc[i] = "store"
    /\ tables' = [tables EXCEPT ![Current(i)] = to_gbq(@, df[i].rows, i)]
    /\ log' = [log EXCEPT ![i] = Append(@, Event("store", Current(i), "ok"))]
    /\ Advance(i)
    /\ UNCHANGED <<today, globals, sources, df, started, ranOn, before, last>>

\* store_df_in_bq raises, before or after to_gbq has created the table.
StoreError(i) ==
    /\ pc[i] = "store"
    /\ \E created \in {tables[Current(i)].exists, TRUE} :
           tables' = [tables EXCEPT ![Current(i)] =
                         [exists |-> created,
                          rows |-> @.rows \o Tagged(FailedLoadRows(df[i].rows), i)]]
    /\ Raise(i, "store")
    /\ UNCHANGED <<today, globals, sources, df, started, ranOn, before, last>>

\* main has returned or raised; the frame is gone.
Return(i) ==
    /\ pc[i] \in {"done", "error"}
    /\ last' = [outcome |-> pc[i], month |-> str_last_month]
    /\ pc' = [pc EXCEPT ![i] = "ended"]
    /\ report' = [report EXCEPT ![i] = 0]
    /\ df' = [df EXCEPT ![i] = NoDF]
    /\ log' = [log EXCEPT ![i] = << >>]
    /\ ranOn' = [ranOn EXCEPT ![i] = NoDate]
    /\ before' = [before EXCEPT ![i] = NoTables]
    /\ UNCHANGED <<today, globals, sources, tables, started>>

InitWorld(s) ==
    /\ JOBS_BY_ORGANIZATION = Scenarios[s].jobs
    /\ warehouse = Scenarios[s].warehouse
    /\ bucket = Scenarios[s].bucket

InitProcess ==
    /\ loaded = FALSE
    /\ date_tc = NoDate
    /\ date_last_day_previous_month = NoDate
    /\ date_first_day_previous_month = NoDate
    /\ str_last_month = << >>
    /\ tables = NoTables
    /\ pc = [i \in Invocations |-> "idle"]
    /\ report = [i \in Invocations |-> 0]
    /\ df = [i \in Invocations |-> NoDF]
    /\ started = 0
    /\ ranOn = [i \in Invocations |-> NoDate]
    /\ before = [i \in Invocations |-> NoTables]
    /\ log = [i \in Invocations |-> << >>]
    /\ last = NoLast

Init ==
    /\ today = StartDate
    /\ \E s \in 1..Len(Scenarios) : InitWorld(s)
    /\ InitProcess

Next ==
    \/ LoadModule
    \/ AdvanceClock
    \/ \E i \in Invocations :
        \/ Start(i)
        \/ GetTableFound(i)
        \/ GetTableNotFound(i)
        \/ GetTableError(i)
        \/ Query(i)
        \/ QueryError(i)
        \/ Generate(i)
        \/ GenerateError(i)
        \/ Store(i)
        \/ StoreError(i)
        \/ Return(i)

Spec == Init /\ [][Next]_vars

\* Somebody deletes a destination table of the billing dataset.
DropTable(table_name) ==
    /\ tables[table_name].exists
    /\ tables' = [tables EXCEPT ![table_name] = [exists |-> FALSE, rows |-> << >>]]
    /\ UNCHANGED <<today, globals, sources, pc, report, df, started, ranOn, before,
                   log, last>>

\* The pipeline in a dataset whose tables may be deleted under it.
NextDrop ==
    \/ Next
    \/ \E t \in TableNames : DropTable(t)
    \/ \E i \in Invocations : QueryNotFound(i)

SpecDrop == Init /\ [][NextDrop]_vars

\* The trigger calls main again in the same process while an earlier
\* invocation is still running.
StartOverlap(i) ==
    /\ loaded
    /\ i = started + 1
    /\ i <= MaxOverlapping
    /\ Cardinality({j \in Invocations : Active(j)}) = 1
    /\ pc' = [pc EXCEPT ![i] = "get_table"]
    /\ report' = [report EXCEPT ![i] = 1]
    /\ started' = i
    /\ ranOn' = [ranOn EXCEPT ![i] = today]
    /\ before' = [before EXCEPT ![i] = tables]
    /\ UNCHANGED <<today, globals, sources, tables, df, log, last>>

\* The pipeline with invocations that may overlap.
NextOverlap ==
    \/ Next
    \/ \E i \in Invocations : StartOverlap(i)

SpecOverlap == Init /\ [][NextOverlap]_vars

\* Every day of the years under study is a day the module may be loaded on.
Years == (2023..(2023 + NumYears - 1)) \cup CenturyYears

AllDates ==
    { [year |-> y, month |-> m, day |-> d] :
        y \in Years, m \in 1..12, d \in 1..31 }

ValidDates == { d \in AllDates : d.day <= days_in_month(d.year, d.month) }

InitPeriod ==
    /\ today \in ValidDates
    /\ InitWorld(1)
    /\ InitProcess

NextPeriod == LoadModule

SpecPeriod == InitPeriod /\ [][NextPeriod]_vars

\* =================================================================== claims
LastEvent(i) == log[i][Len(log[i])]

GateSteps == {"gate", "get_table", "query"}

\* The gate was called for table t in invocation i.
Gated(i, t) ==
    \E k \in 1..Len(log[i]) : log[i][k].table = t /\ log[i][k].step \in GateSteps

GateReturned(i, t, out) ==
    \E k \in 1..Len(log[i]) :
        log[i][k].table = t /\ log[i][k].step = "gate" /\ log[i][k].out = out

Did(i, step, t) ==
    \E k \in 1..Len(log[i]) : log[i][k].table = t /\ log[i][k].step = step

HasMonth(table, month) ==
    \E k \in 1..Len(table.rows) : table.rows[k].data.month = month

Data(rows) == [k \in 1..Len(rows) |-> rows[k].data]

\* The calendar, stated without ordinals.
LengthOfMonth(year, month) ==
    IF month \in {4, 6, 9, 11} THEN 30
    ELSE IF month # 2 THEN 31
    ELSE IF (year % 4 = 0 /\ year % 100 # 0) \/ year % 400 = 0 THEN 29 ELSE 28

MonthBefore(d) ==
    IF d.month = 1 THEN [year |-> d.year - 1, month |-> 12]
    ELSE [year |-> d.year, month |-> d.month - 1]

\* The globals are those of the calendar month before date d.
PeriodPrecedes(d) ==
    LET m == MonthBefore(d)
    IN  /\ date_last_day_previous_month =
               [year |-> m.year, month |-> m.month, day |-> LengthOfMonth(m.year, m.month)]
        /\ date_first_day_previous_month = [year |-> m.year, month |-> m.month, day |-> 1]
        /\ Len(str_last_month) = 6
        /\ Number(str_last_month) = m.year * 100 + m.month

\* C1: serialized invocations never leave two batches of one month in a
\* table: rows of one table that carry the same month were appended by the
\* same invocation.
C1_OneBatchPerMonth ==
    \A t \in TableNames :
        \A k, h \in 1..Len(tables[t].rows) :
            tables[t].rows[k].data.month = tables[t].rows[h].data.month
                => tables[t].rows[k].by = tables[t].rows[h].by

\* A later invocation was denied on a table that holds the month's rows of an
\* earlier one, after an invocation had aborted.
C1_Witness ==
    \E i \in Invocations, t \in TableNames :
        /\ GateReturned(i, t, "false")
        /\ last.outcome = "error"
        /\ \E k \in 1..Len(tables[t].rows) :
               /\ tables[t].rows[k].data.month = str_last_month
               /\ tables[t].rows[k].by # i

\* An invocation has completed after an invocation that completed for the
\* same period.
SecondRun(i) ==
    pc[i] = "done" /\ last.outcome = "done" /\ last.month = str_last_month

\* C2 as stated: a second completed run for the same period changes no table
\* and the gate denies all three reports.
C2_SecondRunSkipsAll ==
    \A i \in Invocations :
        SecondRun(i) =>
            /\ tables = before[i]
            /\ \A t \in TableNames : GateReturned(i, t, "false")

\* C2 amended: a second completed run for the same period changes no table;
\* the gate denies storage_usage and every cost report that has a row, and a
\* cost report without any row is allowed again and appends nothing.
C2_SecondRunChangesNothing ==
    \A i \in Invocations :
        SecondRun(i) =>
            /\ tables = before[i]
            /\ GateReturned(i, "storage_usage", "false")
            /\ \A t \in TableNames \ {"storage_usage"} :
                   IF Generator(t).rows = << >>
                   THEN GateReturned(i, t, "true") /\ Did(i, "store", t)
                   ELSE GateReturned(i, t, "false")

C2_Witness ==
    \E i \in Invocations :
        /\ SecondRun(i)
        /\ \A t \in TableNames : GateReturned(i, t, "false") /\ tables[t].rows # << >>

\* C3: when can_insert_data returns, it returns false exactly when the table
\* exists and holds a row of the period key, and true otherwise.
C3_GateDecision ==
    [][\A i \in Invocations :
          (Len(log'[i]) = Len(log[i]) + 1 /\ log'[i][Len(log'[i])].step = "gate")
              => LET t == Current(i)
                     out == log'[i][Len(log'[i])].out
                     present == tables[t].exists /\ HasMonth(tables[t], str_last_month)
                 IN  /\ out = "false" <=> present
                     /\ out = "true" <=> ~present]_vars

\* The gate has allowed a table that exists and holds rows of other months only.
C3_Witness ==
    \E i \in Invocations :
        /\ pc[i] = "generate"
        /\ LastEvent(i).step = "gate" /\ LastEvent(i).out = "true"
        /\ tables[Current(i)].exists
        /\ tables[Current(i)].rows # << >>
        /\ ~HasMonth(tables[Current(i)], str_last_month)

\* C4: a step of can_insert_data, whether it goes on, returns or raises,
\* leaves the tables and the period globals as they were.
C4_GateFrame ==
    [][\A i \in Invocations :
          (pc[i] \in {"get_table", "query"} /\ pc'[i] # pc[i])
              => /\ tables' = tables
                 /\ <<date_tc, date_last_day_previous_month,
                      date_first_day_previous_month, str_last_month>>' =
                    <<date_tc, date_last_day_previous_month,
                      date_first_day_previous_month, str_last_month>>]_vars

\* In one invocation the gate has denied, allowed on a missing table, and raised.
C4_Witness ==
    \E i \in Invocations :
        /\ pc[i] = "error"
        /\ LastEvent(i).step = "query"
        /\ \E t \in TableNames : GateReturned(i, t, "false")
        /\ \E t \in TableNames : GateReturned(i, t, "true")

\* What C5 says of a denied report itself.
DeniedUntouched(i, t) ==
    /\ ~Did(i, "generate", t)
    /\ ~Did(i, "store", t)
    /\ tables[t].rows = before[i][t].rows

\* C5 as stated: a denied report is neither generated nor stored, its table is
\* unchanged, and by the end of the invocation every later report was gated.
C5_DeniedThenAllGated ==
    \A i \in Invocations, t \in TableNames :
        GateReturned(i, t, "false") =>
            /\ DeniedUntouched(i, t)
            /\ pc[i] \in {"done", "error"} =>
                   \A u \in TableNames : IndexOf(u) > IndexOf(t) => Gated(i, u)

\* C5 amended: a denied report is neither generated nor stored and its table
\* is unchanged; the invocation goes straight on to the gate of the next
\* report, and gates every later report unless a later step raises.
C5_DeniedThenNextGated ==
    \A i \in Invocations :
        \A k \in 1..Len(log[i]) :
            (log[i][k].step = "gate" /\ log[i][k].out = "false") =>
                LET t == log[i][k].table
                    following == IF IndexOf(t) < Len(reports)
                                 THEN reports[IndexOf(t) + 1] ELSE t
                IN  /\ DeniedUntouched(i, t)
                    /\ IF IndexOf(t) = Len(reports)
                       THEN k = Len(log[i]) /\ pc[i] = "done"
                       ELSE IF k = Len(log[i])
                       THEN pc[i] \in {"get_table", "query"} /\ Current(i) = following
                       ELSE log[i][k + 1].table = following
                            /\ log[i][k + 1].step \in GateSteps
                    /\ pc[i] = "done" =>
                           \A u \in TableNames : IndexOf(u) > IndexOf(t) => Gated(i, u)
                    /\ pc[i] = "error" =>
                           \A u \in TableNames :
                               (IndexOf(u) > IndexOf(t)
                                /\ IndexOf(u) <= IndexOf(LastEvent(i).table))
                                   => Gated(i, u)

\* An invocation completed in which storage_usage was denied and a later
\* report was stored.
C5_Witness ==
    \E i \in Invocations :
        /\ pc[i] = "done"
        /\ GateReturned(i, "storage_usage", "false")
        /\ Did(i, "store", "bq_jobs_costs_detail")
        /\ Gated(i, "bq_jobs_costs_per_project")

\* C6: whatever day the module is loaded on, the period is the calendar month
\* before that day: last_day its last day, first_day its 1st, key its YYYYMM.
C6_PreviousMonth == loaded => (date_tc = today /\ PeriodPrecedes(today))

\* Loaded on 2024-01-01: December 2023.
C6_Witness ==
    /\ loaded
    /\ date_tc = [year |-> 2024, month |-> 1, day |-> 1]
    /\ date_first_day_previous_month = [year |-> 2023, month |-> 12, day |-> 1]
    /\ date_last_day_previous_month = [year |-> 2023, month |-> 12, day |-> 31]
    /\ str_last_month = <<2, 0, 2, 3, 1, 2>>

\* C7: every invocation works on the calendar month before the date it runs on.
C7_PeriodOfInvocationDate ==
    \A i \in Invocations : Active(i) => PeriodPrecedes(ranOn[i])

\* C8: every row an invocation has appended to a table carries the month the
\* gate checked for that table in that invocation.
C8_RowsCarryGatedMonth ==
    \A i \in Invocations :
        Active(i) =>
            \A t \in TableNames :
                \A k \in 1..Len(tables[t].rows) :
                    tables[t].rows[k].by = i =>
                        \E h \in 1..Len(log[i]) :
                            /\ log[i][h].step = "gate"
                            /\ log[i][h].table = t
                            /\ log[i][h].out = "true"
                            /\ log[i][h].month = tables[t].rows[k].data.month

\* An invocation has stored storage rows and rows of both cost reports.
C8_Witness ==
    \E i \in Invocations :
        /\ pc[i] = "done"
        /\ \A t \in TableNames :
               /\ Did(i, "store", t)
               /\ \E k \in 1..Len(tables[t].rows) : tables[t].rows[k].by = i

RaisedIn(i, steps) ==
    \E k \in 1..Len(log[i]) : log[i][k].out = "raise" /\ log[i][k].step \in steps

\* A raise ends the invocation at once: it is the last thing the invocation
\* did and no later report was gated, generated or stored.
AbortsAt(i, k) ==
    /\ pc[i] = "error"
    /\ k = Len(log[i])
    /\ \A h \in 1..Len(log[i]) : IndexOf(log[i][h].table) <= IndexOf(log[i][k].table)
    /\ report[i] = IndexOf(log[i][k].table)

\* C9 as stated: a raise of a generator or of the store aborts the invocation
\* and the later reports; an invocation without such a raise completes
\* normally.
C9_GenerateOrStoreAborts ==
    \A i \in Invocations :
        /\ \A k \in 1..Len(log[i]) :
               (log[i][k].out = "raise" /\ log[i][k].step \in {"generate", "store"})
                   => AbortsAt(i, k)
        /\ (pc[i] \in {"done", "error"} /\ ~RaisedIn(i, {"generate", "store"}))
               => pc[i] = "done"

\* C9 amended: a raise of the gate, of a generator or of the store aborts the
\* invocation and the later reports; an invocation without any raise
\* completes normally, every report gated and every allowed report stored.
C9_FirstErrorAborts ==
    \A i \in Invocations :
        /\ \A k \in 1..Len(log[i]) : log[i][k].out = "raise" => AbortsAt(i, k)
        /\ pc[i] = "error" => RaisedIn(i, {"get_table", "query", "generate", "store"})
        /\ pc[i] = "done" =>
               \A t \in TableNames :
                   /\ Gated(i, t)
                   /\ GateReturned(i, t, "true") => Did(i, "store", t)

\* The store of the second report raised after the first report was stored.
C9_Witness ==
    \E i \in Invocations :
        /\ pc[i] = "error"
        /\ LastEvent(i).step = "store"
        /\ LastEvent(i).table = "bq_jobs_costs_detail"
        /\ Did(i, "store", "storage_usage")

\* The period of a key YYYYMM.
FirstDayOf(month) ==
    [year |-> Number(SubSeq(month, 1, 4)), month |-> Number(SubSeq(month, 5, 6)),
     day |-> 1]

LastDayOf(month) ==
    [year |-> Number(SubSeq(month, 1, 4)), month |-> Number(SubSeq(month, 5, 6)),
     day |-> LengthOfMonth(Number(SubSeq(month, 1, 4)), Number(SubSeq(month, 5, 6)))]

\* The complete report of a table for a month.
ReportOf(t, month) ==
    CASE t = "storage_usage" -> StorageReport(month)
      [] t = "bq_jobs_costs_detail" -> DetailReport(FirstDayOf(month), LastDayOf(month))
      [] t = "bq_jobs_costs_per_project" ->
             PerProjectReport(FirstDayOf(month), LastDayOf(month))

\* C10: the rows of a month that a table holds are the complete report of
\* that month, never a part of it.
C10_NoPartialReport ==
    \A t \in TableNames :
        \A month \in {tables[t].rows[k].data.month : k \in 1..Len(tables[t].rows)} :
            Data(SelectSeq(tables[t].rows, LAMBDA r : r.data.month = month))
                = ReportOf(t, month).rows

\* A store has raised on a frame with rows, after an earlier report of the
\* invocation was stored whole.
C10_Witness ==
    \E i \in Invocations :
        /\ pc[i] = "error"
        /\ LastEvent(i).step = "store"
        /\ df[i].rows # << >>
        /\ ~HasMonth(tables[LastEvent(i).table], str_last_month)
        /\ HasMonth(tables["storage_usage"], str_last_month)

MissingWarehouse ==
    \E k \in 1..Len(bigquery_projects) : ~warehouse[bigquery_projects[k]].exists

RowsBy(i, t) == SelectSeq(tables[t].rows, LAMBDA r : r.by = i)

\* C11: once the gate has allowed storage_usage while a tracked dataset has
\* no warehouse table, the generator raises, the invocation ends in error
\* and it has appended no row to storage_usage.
C11_MissingWarehouseAborts ==
    \A i \in Invocations :
        (GateReturned(i, "storage_usage", "true") /\ MissingWarehouse) =>
            /\ \/ pc[i] = "generate" /\ Current(i) = "storage_usage"
               \/ /\ pc[i] = "error"
                  /\ LastEvent(i) = Event("generate", "storage_usage", "raise")
            /\ RowsBy(i, "storage_usage") = << >>
            /\ tables["storage_usage"].rows = before[i]["storage_usage"].rows

\* The first tracked dataset has its table, the second has not, and the
\* generator has raised.
C11_Witness ==
    \E i \in Invocations :
        /\ pc[i] = "error"
        /\ LastEvent(i) = Event("generate", "storage_usage", "raise")
        /\ warehouse[bigquery_projects[1]].exists
        /\ ~warehouse[bigquery_projects[2]].exists

\* C12 as stated: NotFound of the existence check makes the gate return
\* true, and a month query that cannot find the table raises out of the gate,
\* ending the invocation with the tables as they were.
C12_QueryNotFoundPropagates ==
    [][\A i \in Invocations :
          /\ (pc[i] = "get_table" /\ ~tables[Current(i)].exists /\ pc'[i] = "generate")
                 => (log'[i][Len(log'[i])].step = "gate"
                     /\ log'[i][Len(log'[i])].out = "true")
          /\ (pc[i] = "query" /\ ~tables[Current(i)].exists /\ pc'[i] # pc[i])
                 => (pc'[i] = "error" /\ tables' = tables)]_vars

\* The usage records of the period of the loaded module, by calendar day.
InPeriod(j) ==
    LET day == toordinal(DateOfTimestamp(j.start_time))
    IN  /\ toordinal(date_first_day_previous_month) <= day
        /\ day <= toordinal(date_last_day_previous_month)

PeriodRecords ==
    { j \in JOBS_BY_ORGANIZATION :
        j.job_type = "QUERY" /\ j.state = "DONE" /\ InPeriod(j) }

\* C13 as stated: a cost frame covers exactly the finished queries started on
\* a day of the period, any time of the last day included.
C13_WholePeriodCovered ==
    \A i \in Invocations :
        /\ (pc[i] = "store" /\ Current(i) = "bq_jobs_costs_detail") =>
               { df[i].rows[k].job_id : k \in 1..Len(df[i].rows) }
                   = { j.job_id : j \in PeriodRecords }
        /\ (pc[i] = "store" /\ Current(i) = "bq_jobs_costs_per_project") =>
               \A k \in 1..Len(df[i].rows) :
                   df[i].rows[k].num_queries =
                       Cardinality({ j \in PeriodRecords :
                           /\ j.project_id = df[i].rows[k].project_id
                           /\ j.user_email = df[i].rows[k].user_email })

\* The per-query cost as the claim C14 words it, in ten-thousandths of a
\* dollar: nothing for a cache hit, the formula for everything else.
StatedCost(j) ==
    IF j.cache_hit = "true" THEN 0
    ELSE RoundDiv(j.total_bytes_processed * cost_per_tb_in_dollar * 625,
                  tb_divisor \div 16)

RECURSIVE SumStatedCost(_)
SumStatedCost(jobs) ==
    IF jobs = {} THEN 0
    ELSE LET j == CHOOSE x \in jobs : TRUE
         IN  StatedCost(j) + SumStatedCost(jobs \ {j})

\* C14 as stated: every row of a cost frame carries the stated cost of its
\* record (detail) or of the records of its group (summary), a record whose
\* cache_hit is not set costing what an uncached one costs.
C14_CostFormula ==
    \A i \in Invocations :
        /\ (pc[i] = "store" /\ Current(i) = "bq_jobs_costs_detail") =>
               \A k \in 1..Len(df[i].rows) :
                   \A j \in JOBS_BY_ORGANIZATION :
                       j.job_id = df[i].rows[k].job_id =>
                           df[i].rows[k].cost_in_dollar = StatedCost(j)
        /\ (pc[i] = "store" /\ Current(i) = "bq_jobs_costs_per_project") =>
               \A k \in 1..Len(df[i].rows) :
                   df[i].rows[k].cost_in_dollar =
                       SumStatedCost({ j \in QueryWindow(JOBS_BY_ORGANIZATION,
                                                         date_first_day_previous_month,
                                                         date_last_day_previous_month) :
                           /\ j.project_id = df[i].rows[k].project_id
                           /\ j.user_email = df[i].rows[k].user_email })

RECURSIVE SumOf(_)
SumOf(seq) == IF seq = << >> THEN 0 ELSE Head(seq) + SumOf(Tail(seq))

\* The records one summary row stands for, in report order.
RecordsOf(row) ==
    SelectSeq(OrderJobs(QueryWindow(JOBS_BY_ORGANIZATION, date_first_day_previous_month,
                                    date_last_day_previous_month)),
              LAMBDA j : /\ j.project_id = row.project_id
                         /\ j.user_email = row.user_email
                         /\ MonthOfJob(j) = row.month)

\* C15: a row of the summary frame counts the records of its group, sums
\* their costs after each was rounded to 4 decimals, and rounds the gigabytes
\* only after summing the billed bytes; every group has exactly one row.
C15_GroupTotals ==
    \A i \in Invocations :
        (pc[i] = "store" /\ Current(i) = "bq_jobs_costs_per_project") =>
            /\ \A k \in 1..Len(df[i].rows) :
                   LET row == df[i].rows[k]
                       recs == RecordsOf(row)
                   IN  /\ Len(recs) > 0
                       /\ row.num_queries = Len(recs)
                       /\ row.cost_in_dollar =
                              SumOf([n \in 1..Len(recs) |-> cost_in_dollar(recs[n])])
                       /\ row.bytes_processed_in_gb =
                              RoundDiv(SumOf([n \in 1..Len(recs) |->
                                                 recs[n].total_bytes_billed]) * 100,
                                       gb_divisor)
                       /\ \A h \in 1..Len(df[i].rows) :
                              (h # k) => RecordsOf(df[i].rows[h]) # recs
            /\ SumOf([k \in 1..Len(df[i].rows) |-> df[i].rows[k].num_queries])
                   = Cardinality(QueryWindow(JOBS_BY_ORGANIZATION,
                                             date_first_day_previous_month,
                                             date_last_day_previous_month))

\* A summary frame with the group of j6 and j8: 0.0001 + 0.0002 dollars, where
\* rounding the sum of the unrounded costs gives 0.0002; 0.03 GB, where the
\* rounded gigabytes of the two add up to 0.04.
C15_Witness ==
    \E i \in Invocations :
        /\ pc[i] = "store"
        /\ Current(i) = "bq_jobs_costs_per_project"
        /\ \E k \in 1..Len(df[i].rows) :
               /\ df[i].rows[k].num_queries = 2
               /\ df[i].rows[k].cost_in_dollar = 3
               /\ df[i].rows[k].bytes_processed_in_gb = 3

\* The blobs whose path starts with the characters of a dataset identifier.
StartsWith(project) ==
    { b \in bucket :
        /\ Len(b.name) >= Len(project)
        /\ \A n \in 1..Len(project) : b.name[n] = project[n] }

\* C16: the storage frame has one row per tracked dataset, in list order,
\* with the period key, the byte size of the dataset's warehouse table and
\* the total size of the blobs whose path starts with its identifier.
C16_StorageRows ==
    \A i \in Invocations :
        (pc[i] = "store" /\ Current(i) = "storage_usage") =>
            /\ Len(df[i].rows) = Len(bigquery_projects)
            /\ \A k \in 1..Len(bigquery_projects) :
                   /\ df[i].rows[k].project = bigquery_projects[k]
                   /\ df[i].rows[k].month = str_last_month
                   /\ df[i].rows[k].bigquery_storage_bytes
                          = warehouse[bigquery_projects[k]].num_bytes
                   /\ df[i].rows[k].cloud_storage_bytes
                          = SumSizes(StartsWith(bigquery_projects[k]))
                   /\ (StartsWith(bigquery_projects[k]) = {})
                          => df[i].rows[k].cloud_storage_bytes = 0

\* The frame of a bucket where the first identifier is also the start of the
\* second dataset's paths: its blobs count for both rows.
C16_Witness ==
    \E i \in Invocations :
        /\ pc[i] = "store"
        /\ Current(i) = "storage_usage"
        /\ df[i].rows[1].cloud_storage_bytes = 60
        /\ df[i].rows[2].cloud_storage_bytes = 30

\* C17: in the steps of one invocation a generator directly follows the gate
\* having returned true for its table, store directly follows that generator
\* having returned, no report is gated, generated or stored twice, and no
\* step of an earlier report comes after a step of a later one.
C17_StepOrder ==
    \A i \in Invocations :
        /\ \A k \in 1..Len(log[i]) :
               /\ log[i][k].step = "generate" =>
                      /\ k > 1
                      /\ log[i][k - 1] = Event("gate", log[i][k].table, "true")
               /\ log[i][k].step = "store" =>
                      /\ k > 1
                      /\ log[i][k - 1] = Event("generate", log[i][k].table, "ok")
               /\ \A h \in (k + 1)..Len(log[i]) :
                      /\ IndexOf(log[i][k].table) <= IndexOf(log[i][h].table)
                      /\ log[i][h].table = log[i][k].table =>
                             log[i][h].step # log[i][k].step
        /\ pc[i] = "generate" => LastEvent(i) = Event("gate", Current(i), "true")
        /\ pc[i] = "store" => LastEvent(i) = Event("generate", Current(i), "ok")
        /\ (Active(i) /\ log[i] # << >>) =>
               IndexOf(LastEvent(i).table) <= report[i]

\* An invocation that gated, generated and stored all three reports.
C17_Witness ==
    \E i \in Invocations :
        /\ pc[i] = "done"
        /\ Len(log[i]) = 9
        /\ \A t \in TableNames : Did(i, "store", t)

StoreReturned(i, t) ==
    \E k \in 1..Len(log[i]) : log[i][k] = Event("store", t, "ok")

\* Both invocations were allowed by the gate of table t and both have stored
\* their frame.
BothStored(i, j, t) ==
    /\ i # j
    /\ GateReturned(i, t, "true") /\ StoreReturned(i, t)
    /\ GateReturned(j, t, "true") /\ StoreReturned(j, t)

\* C18: two overlapping invocations that both passed the gate of a table and
\* both stored leave the table with the batch of each of them, two batches
\* of the same month.
C18_BothBatchesStay ==
    \A i, j \in Invocations : \A t \in TableNames :
        BothStored(i, j, t) =>
            /\ Data(RowsBy(i, t)) = ReportOf(t, str_last_month).rows
            /\ Data(RowsBy(j, t)) = ReportOf(t, str_last_month).rows
            /\ Len(SelectSeq(tables[t].rows, LAMBDA r : r.data.month = str_last_month))
                   >= 2 * Len(ReportOf(t, str_last_month).rows)

\* Two running invocations have both been allowed and have both appended a
\* batch that is not empty: the second gate ran before the first append.
C18_Witness ==
    \E i, j \in Invocations : \E t \in TableNames :
        /\ BothStored(i, j, t)
        /\ RowsBy(i, t) # << >>
        /\ RowsBy(j, t) # << >>
        /\ \A r \in {tables[t].rows[k] : k \in 1..Len(tables[t].rows)} :
               r.data.month = str_last_month

CostTables == {"bq_jobs_costs_detail", "bq_jobs_costs_per_project"}

\* Invocation i was allowed by the gate of storage_usage and then failed in
\* the storage generator or in the store of its frame.
StorageFailed(i) ==
    /\ pc[i] = "error"
    /\ GateReturned(i, "storage_usage", "true")
    /\ LastEvent(i).table = "storage_usage"
    /\ LastEvent(i).step \in {"generate", "store"}

\* C19: an invocation that fails on storage_usage after its gate allowed has
\* appended nothing to any table; a cost table holds rows of a month only if
\* storage_usage holds rows of that month, and while a tracked dataset lacks
\* its warehouse table no table receives anything.
C19_StorageFailureBlocksAll ==
    /\ \A i \in Invocations :
           StorageFailed(i) =>
               \A t \in TableNames : tables[t].rows = before[i][t].rows
    /\ \A t \in CostTables :
           \A month \in {tables[t].rows[k].data.month : k \in 1..Len(tables[t].rows)} :
               HasMonth(tables["storage_usage"], month)
    /\ MissingWarehouse => \A t \in TableNames : tables[t].rows = << >>

\* The failure has persisted: an invocation ended in error and a later one
\* has failed on storage_usage again, the tables still without a row.
C19_Witness ==
    \E i \in Invocations :
        /\ i > 1
        /\ StorageFailed(i)
        /\ last = [outcome |-> "error", month |-> str_last_month]
        /\ MissingWarehouse
        /\ \A t \in TableNames : tables[t].rows = << >>

\* C20: an invocation that ran through without a failure has skipped exactly
\* the reports whose table held rows of the month when it started, untouched,
\* and has appended the complete frame of every other report; each table
\* then holds the report of the month once.
C20_RunCompletesThePeriod ==
    \A i \in Invocations :
        pc[i] = "done" =>
            \A t \in TableNames :
                /\ IF HasMonth(before[i][t], str_last_month)
                   THEN /\ GateReturned(i, t, "false")
                        /\ ~Did(i, "generate", t)
                        /\ ~Did(i, "store", t)
                        /\ tables[t].rows = before[i][t].rows
                   ELSE /\ GateReturned(i, t, "true")
                        /\ StoreReturned(i, t)
                        /\ tables[t].rows =
                               before[i][t].rows
                                   \o Tagged(ReportOf(t, str_last_month).rows, i)
                /\ Data(SelectSeq(tables[t].rows,
                                  LAMBDA r : r.data.month = str_last_month))
                       = ReportOf(t, str_last_month).rows

\* The invocation before this one aborted after storing storage_usage; this
\* one skipped that report and stored the cost reports of the same month.
C20_Witness ==
    \E i \in Invocations :
        /\ pc[i] = "done"
        /\ last = [outcome |-> "error", month |-> str_last_month]
        /\ HasMonth(before[i]["storage_usage"], str_last_month)
        /\ GateReturned(i, "storage_usage", "false")
        /\ \A t \in CostTables :
               /\ ~HasMonth(before[i][t], str_last_month)
               /\ RowsBy(i, t) # << >>

====
